---- MODULE Spec2Model ----
(***************************************************************************)
(* Model of streamlit_app.py (Google SEO Scout): the query composition of  *)
(* the General Query Builder and of the use-case flows, the domain         *)
(* validator is_valid_domain and the link opener open_google_search.       *)
(*                                                                         *)
(* A Python str is modelled as a sequence of one-character strings, so     *)
(* that formatting, splitting, trimming and pattern matching are computed  *)
(* character by character.  A Streamlit script run is one action: a widget *)
(* edit or a button press reruns the whole script.                         *)
(***************************************************************************)
EXTENDS Integers, Sequences, FiniteSets, TLC

VARIABLES
    gen,                    \* widget values of the General Query Builder
    generated_query_parts,  \* the list built by the last run (each part tagged with its field)
    general_query,          \* the query string built by the last run
    gen_warnings,           \* st.warning calls of the builder section in the last run
    gen_opened,             \* href rendered by open_google_search in the last run, or NoLink
    uc,                     \* selected use case and its widget values
    uc_code,                \* query rendered by st.code in the use-case section, or NoQuery
    uc_warnings,            \* st.warning calls of the use-case section in the last run
    uc_opened,              \* href rendered by the use-case section, or NoLink
    domain,                 \* argument handed to is_valid_domain (validator specification)
    domain_ok               \* is_valid_domain(domain)

vars == <<gen, generated_query_parts, general_query, gen_warnings, gen_opened,
          uc, uc_code, uc_warnings, uc_opened, domain, domain_ok>>

-----------------------------------------------------------------------------
(* Characters and strings *)

Letters == {"a", "b", "c", "d", "e", "f", "g", "h", "i", "j", "k", "l", "m",
            "n", "o", "p", "q", "r", "s", "t", "u", "v", "w", "x", "y", "z",
            "A", "B", "C", "D", "E", "F", "G", "H", "I", "J", "K", "L", "M",
            "N", "O", "P", "Q", "R", "S", "T", "U", "V", "W", "X", "Y", "Z"}

Digits == {"0", "1", "2", "3", "4", "5", "6", "7", "8", "9"}

\* the characters str.strip() removes (ASCII part)
Whitespace == {" ", "\t", "\n", "\r", "\f"}

IsSpace(c) == c \in Whitespace

RECURSIVE LStrip(_)
LStrip(s) == IF s # <<>> /\ IsSpace(Head(s)) THEN LStrip(Tail(s)) ELSE s

RECURSIVE RStrip(_)
RStrip(s) == IF s # <<>> /\ IsSpace(s[Len(s)]) THEN RStrip(SubSeq(s, 1, Len(s) - 1)) ELSE s

\* a variant of Strip that trims the left end only
StripLeftOnly(s) == LStrip(s)

\* str.strip()
Strip(s) == RStrip(LStrip(s))

\* sep.join(parts)
RECURSIVE Join(_, _)
Join(parts, sep) ==
    IF parts = <<>> THEN <<>>
    ELSE IF Len(parts) = 1 THEN parts[1]
    ELSE parts[1] \o sep \o Join(Tail(parts), sep)

\* s.split(c) for a one-character separator: always at least one piece
RECURSIVE Split(_, _)
Split(s, c) ==
    IF \A i \in 1..Len(s) : s[i] # c THEN <<s>>
    ELSE LET i == CHOOSE k \in 1..Len(s) : s[k] = c /\ \A j \in 1..(k - 1) : s[j] # c
         IN  <<SubSeq(s, 1, i - 1)>> \o Split(SubSeq(s, i + 1, Len(s)), c)

\* s.startswith(p)
StartsWith(s, p) == Len(s) >= Len(p) /\ SubSeq(s, 1, Len(p)) = p

DigitChar(n) == CASE n = 0 -> "0" [] n = 1 -> "1" [] n = 2 -> "2" [] n = 3 -> "3"
                  [] n = 4 -> "4" [] n = 5 -> "5" [] n = 6 -> "6" [] n = 7 -> "7"
                  [] n = 8 -> "8" [] n = 9 -> "9"

\* str(n) of a non-negative int, as the f-string formats it
RECURSIVE IntToStr(_)
IntToStr(n) == IF n < 10 THEN <<DigitChar(n)>> ELSE IntToStr(n \div 10) \o <<DigitChar(n % 10)>>

\* a decimal left without padding
NoPad(s, w) == s

\* zero-padded decimal of width w (strftime %Y, %m, %d)
RECURSIVE ZeroPad(_, _)
ZeroPad(s, w) == IF Len(s) >= w THEN s ELSE ZeroPad(<<"0">> \o s, w)

\* date.strftime('%Y-%m-%d')
strftime(dt) ==
    ZeroPad(IntToStr(dt.y), 4) \o <<"-">> \o ZeroPad(IntToStr(dt.m), 2) \o <<"-">> \o ZeroPad(IntToStr(dt.d), 2)

-----------------------------------------------------------------------------
(* is_valid_domain: the pattern                                            *)
(*   ^(?:[a-zA-Z0-9](?:[a-zA-Z0-9-]{0,61}[a-zA-Z0-9])?\.)+[a-zA-Z]{2,6}$   *)
(* matched by re.match.  The string is first read as its character         *)
(* classes: "L" for [a-zA-Z], "D" for [0-9], any other character for       *)
(* itself.  Each piece of the pattern is the set of positions at which a   *)
(* match of the piece starting at position i can end (next unread index).  *)

ClassOf(c) == IF c \in Letters THEN "L" ELSE IF c \in Digits THEN "D" ELSE c

Classes(s) == [i \in 1..Len(s) |-> ClassOf(s[i])]

\* [a-zA-Z0-9] and [a-zA-Z0-9-]
AlNum == {"L", "D"}
AlNumHyphen == {"L", "D", "-"}

\* [a-zA-Z0-9](?:[a-zA-Z0-9-]{0,61}[a-zA-Z0-9])?
LabelEnds(k, i) ==
    IF i > Len(k) \/ k[i] \notin AlNum THEN {}
    ELSE {i + 1} \cup
         { j + 1 : j \in { e \in (i + 1)..Len(k) :
                             /\ e - i - 1 <= 61
                             /\ k[e] \in AlNum
                             /\ \A m \in (i + 1)..(e - 1) : k[m] \in AlNumHyphen } }

\* one repetition of the group: a label and a dot
GroupEnds(k, i) == { j + 1 : j \in { e \in LabelEnds(k, i) : e <= Len(k) /\ k[e] = "." } }

GroupStep(k, starts) == UNION { GroupEnds(k, i) : i \in starts }

\* (?: ... )+ : the positions after one or more repetitions, from the positions `starts`
RECURSIVE GroupPlusFrom(_, _)
GroupClosure(k, next) == IF next = {} THEN {} ELSE next \cup GroupPlusFrom(k, next)
GroupPlusFrom(k, starts) == GroupClosure(k, GroupStep(k, starts))

\* [a-zA-Z]{2,6}
TldEnds(k, i) ==
    { j \in (i + 2)..(i + 6) : j <= Len(k) + 1 /\ \A m \in i..(j - 1) : k[m] = "L" }

\* $ without re.MULTILINE: the end of the string, or just before a final newline
AtDollar(k, j) == j = Len(k) + 1 \/ (j = Len(k) /\ k[j] = "\n")

MatchClasses(k) ==
    \E j \in GroupPlusFrom(k, {1}) : \E e \in TldEnds(k, j) : AtDollar(k, e)

PatternMatches(s) == MatchClasses(Classes(s))

is_valid_domain(d) == IF d = <<>> THEN TRUE ELSE PatternMatches(d)

-----------------------------------------------------------------------------
(* open_google_search: urllib.parse.quote_plus and the href it renders *)

\* the ASCII code of the characters the model's inputs use outside [A-Za-z0-9]
CharCode(c) ==
    CASE c = "\t" -> 9   [] c = "\n" -> 10  [] c = "\f" -> 12  [] c = "\r" -> 13
      [] c = " "  -> 32  [] c = "!"  -> 33  [] c = "\"" -> 34  [] c = "#"  -> 35
      [] c = "$"  -> 36  [] c = "%"  -> 37  [] c = "&"  -> 38  [] c = "'"  -> 39
      [] c = "("  -> 40  [] c = ")"  -> 41  [] c = "+"  -> 43  [] c = ","  -> 44
      [] c = "-"  -> 45  [] c = "."  -> 46  [] c = "/"  -> 47  [] c = ":"  -> 58
      [] c = "<"  -> 60  [] c = "="  -> 61  [] c = ">"  -> 62  [] c = "?"  -> 63
      [] c = "_"  -> 95  [] c = "|"  -> 124 [] c = "~"  -> 126

HexDigit(n) == IF n < 10 THEN DigitChar(n)
               ELSE CASE n = 10 -> "A" [] n = 11 -> "B" [] n = 12 -> "C"
                      [] n = 13 -> "D" [] n = 14 -> "E" [] n = 15 -> "F"

\* %XX of one byte
PercentEscape(code) == <<"%", HexDigit(code \div 16), HexDigit(code % 16)>>

\* quote_plus never escapes letters, digits and _ . - ~
AlwaysSafe == {"L", "D", "_", ".", "-", "~"}

\* an encoding that leaves `+` as it is
QuoteCharPlusKept(c) ==
    IF ClassOf(c) \in AlwaysSafe \cup {"+"} THEN <<c>>
    ELSE IF c = " " THEN <<"+">>
    ELSE PercentEscape(CharCode(c))

\* urllib.parse.quote with safe='': a space becomes %20
RECURSIVE quote(_)
quote(q) ==
    IF q = <<>> THEN <<>>
    ELSE IF Len(q) = 1
         THEN (IF ClassOf(q[1]) \in AlwaysSafe THEN q ELSE PercentEscape(CharCode(q[1])))
    ELSE quote(SubSeq(q, 1, Len(q) \div 2)) \o quote(SubSeq(q, Len(q) \div 2 + 1, Len(q)))

QuoteChar(c) ==
    IF ClassOf(c) \in AlwaysSafe THEN <<c>>
    ELSE IF c = " " THEN <<"+">>
    ELSE PercentEscape(CharCode(c))

\* urllib.parse.quote_plus(query): the encodings of the characters of the query, in
\* order, computed half by half so that the depth of the evaluation stays logarithmic
RECURSIVE quote_plus(_)
quote_plus(q) ==
    IF q = <<>> THEN <<>>
    ELSE IF Len(q) = 1 THEN QuoteChar(q[1])
    ELSE quote_plus(SubSeq(q, 1, Len(q) \div 2)) \o quote_plus(SubSeq(q, Len(q) \div 2 + 1, Len(q)))

GoogleSearchPrefix ==
    <<"h","t","t","p","s",":","/","/","w","w","w",".","g","o","o","g","l","e",
      ".","c","o","m","/","s","e","a","r","c","h","?","q","=">>

\* the google_url that open_google_search(query) puts into the rendered link
open_google_search(query) == GoogleSearchPrefix \o quote_plus(query)

-----------------------------------------------------------------------------
(* General Query Builder: one run of the script section *)

Quote == <<"\"">>
Op_site == <<"s","i","t","e",":">>
Op_intitle == <<"i","n","t","i","t","l","e",":">>
Op_inurl == <<"i","n","u","r","l",":">>
Op_filetype == <<"f","i","l","e","t","y","p","e",":">>
Op_before == <<"b","e","f","o","r","e",":">>
Op_after == <<"a","f","t","e","r",":">>
Op_related == <<"r","e","l","a","t","e","d",":">>
Op_cache == <<"c","a","c","h","e",":">>
Str_AROUND == <<"A","R","O","U","N","D">>
Str_http == <<"h","t","t","p",":","/","/">>
Str_https == <<"h","t","t","p","s",":","/","/">>

\* st.date_input(value=None) before a date is picked
NoDate == [y |-> 0, m |-> 0, d |-> 0]

W_Around == "For AROUND(X), please provide both terms."
W_TargetSite == "Invalid format for 'Target Site' domain. Please enter a valid domain (e.g., example.com)."
W_RelatedSite == "Invalid format for 'Related Site' domain. Please enter a valid domain (e.g., example.com)."
W_CacheUrl == "Invalid format for 'Cache URL'. Please enter a valid URL or domain (e.g., example.com/page)."
W_BuildFirst == "Please build a query first!"

\* the widgets' values before any input
GenDefaults ==
    [keywords |-> <<>>, site_domain |-> <<>>, intitle_phrase |-> <<>>, inurl_phrase |-> <<>>,
     filetype_ext |-> <<>>, exact_match_phrase |-> <<>>, exclude_term |-> <<>>, or_terms |-> <<>>,
     before_date |-> NoDate, after_date |-> NoDate,
     around_term1 |-> <<>>, around_term2 |-> <<>>, around_x |-> 5,
     related_site |-> <<>>, cache_url |-> <<>>]

\* exactly one of the two AROUND terms is given
AroundIncomplete(g) ==
    (g.around_term1 # <<>> /\ g.around_term2 = <<>>) \/ (g.around_term1 = <<>> /\ g.around_term2 # <<>>)

\* `if site_domain and not is_valid_domain(site_domain)` (the same test guards related_site)
DomainRejected(v) == v # <<>> /\ ~is_valid_domain(v)

\* the cache test without the http:// and https:// exemptions
CacheRejectedStrict(v) == v # <<>> /\ ~is_valid_domain(v)

\* `if cache_url and not (startswith("http://") or startswith("https://") or is_valid_domain(cache_url))`
CacheRejected(v) ==
    v # <<>> /\ ~(StartsWith(v, Str_http) \/ StartsWith(v, Str_https) \/ is_valid_domain(v))

\* which of the three validated fields the run rejects
Rejected(g) ==
    [site    |-> DomainRejected(g.site_domain),
     related |-> DomainRejected(g.related_site),
     cache   |-> CacheRejected(g.cache_url)]

\* a validation that warns but keeps the value
KeepInvalid(g, rej) == g

\* the three "Clear invalid input" assignments
ClearInvalid(g, rej) ==
    [g EXCEPT !.site_domain = IF rej.site THEN <<>> ELSE @,
              !.related_site = IF rej.related THEN <<>> ELSE @,
              !.cache_url = IF rej.cache THEN <<>> ELSE @]

\* the warnings shown before the query is assembled
GenInputWarnings(g, rej) ==
    (IF AroundIncomplete(g) THEN {W_Around} ELSE {})
    \cup (IF rej.site THEN {W_TargetSite} ELSE {})
    \cup (IF rej.related THEN {W_RelatedSite} ELSE {})
    \cup (IF rej.cache THEN {W_CacheUrl} ELSE {})

Part(field, tok) == [field |-> field, tok |-> tok]

\* a guard that is ignored
PartAlways(cond, field, tok) == <<Part(field, tok)>>

\* `if <cond>: generated_query_parts.append(<tok>)`: the parts this statement appends
PartIf(cond, field, tok) == IF cond THEN <<Part(field, tok)>> ELSE <<>>

SiteToken(v) == Op_site \o v

\* intitle without the quotes
IntitleTokenBare(v) == Op_intitle \o v

IntitleToken(v) == Op_intitle \o Quote \o v \o Quote
InurlToken(v) == Op_inurl \o Quote \o v \o Quote
FiletypeToken(v) == Op_filetype \o v
ExactToken(v) == Quote \o v \o Quote
ExcludeToken(v) == <<"-">> \o v
BeforeToken(dt) == Op_before \o strftime(dt)
AfterToken(dt) == Op_after \o strftime(dt)
RelatedToken(v) == Op_related \o v
CacheToken(v) == Op_cache \o v

RECURSIVE StripAll(_)
StripAll(pieces) == IF pieces = <<>> THEN <<>> ELSE <<Strip(Head(pieces))>> \o StripAll(Tail(pieces))

NonEmptyString(t) == t # <<>>

\* the split without the `if term.strip()` filter
or_list_unfiltered(or_terms) == StripAll(Split(or_terms, "|"))

\* [term.strip() for term in or_terms.split('|') if term.strip()]
or_list(or_terms) == SelectSeq(StripAll(Split(or_terms, "|")), NonEmptyString)

\* f"({' | '.join(or_list)})"
OrGroupToken(l) == <<"(">> \o Join(l, <<" ", "|", " ">>) \o <<")">>

\* the or_terms branch: a group, a single term, or nothing
OrTermsParts(or_terms) ==
    IF or_terms = <<>> THEN <<>>
    ELSE LET l == or_list(or_terms)
         IN  IF Len(l) > 1 THEN <<Part("or_terms", OrGroupToken(l))>>
             ELSE IF l # <<>> THEN <<Part("or_terms", l[1])>>
             ELSE <<>>

\* a guard that is content with either term
AroundEither(g) == g.around_term1 # <<>> \/ g.around_term2 # <<>>

\* `if around_term1 and around_term2`
AroundBoth(g) == g.around_term1 # <<>> /\ g.around_term2 # <<>>

\* f"\"{around_term1}\" AROUND({around_x}) \"{around_term2}\""
AroundToken(t1, x, t2) ==
    Quote \o t1 \o Quote \o <<" ">> \o Str_AROUND \o <<"(">> \o IntToStr(x) \o <<")">> \o <<" ">>
    \o Quote \o t2 \o Quote

\* the statements with `before` and `after` exchanged
AssemblePartsAfterFirst(g) ==
    PartIf(g.keywords # <<>>, "keywords", g.keywords)
    \o PartIf(g.site_domain # <<>>, "site", SiteToken(g.site_domain))
    \o PartIf(g.intitle_phrase # <<>>, "intitle", IntitleToken(g.intitle_phrase))
    \o PartIf(g.inurl_phrase # <<>>, "inurl", InurlToken(g.inurl_phrase))
    \o PartIf(g.filetype_ext # <<>>, "filetype", FiletypeToken(g.filetype_ext))
    \o PartIf(g.exact_match_phrase # <<>>, "exact", ExactToken(g.exact_match_phrase))
    \o PartIf(g.exclude_term # <<>>, "exclude", ExcludeToken(g.exclude_term))
    \o OrTermsParts(g.or_terms)
    \o PartIf(g.after_date # NoDate, "after", AfterToken(g.after_date))
    \o PartIf(g.before_date # NoDate, "before", BeforeToken(g.before_date))
    \o PartIf(g.related_site # <<>>, "related", RelatedToken(g.related_site))
    \o PartIf(AroundBoth(g), "around", AroundToken(g.around_term1, g.around_x, g.around_term2))
    \o PartIf(g.cache_url # <<>>, "cache", CacheToken(g.cache_url))

\* the chain of `if field: generated_query_parts.append(...)`, on the validated values
AssembleParts(g) ==
    PartIf(g.keywords # <<>>, "keywords", g.keywords)
    \o PartIf(g.site_domain # <<>>, "site", SiteToken(g.site_domain))
    \o PartIf(g.intitle_phrase # <<>>, "intitle", IntitleToken(g.intitle_phrase))
    \o PartIf(g.inurl_phrase # <<>>, "inurl", InurlToken(g.inurl_phrase))
    \o PartIf(g.filetype_ext # <<>>, "filetype", FiletypeToken(g.filetype_ext))
    \o PartIf(g.exact_match_phrase # <<>>, "exact", ExactToken(g.exact_match_phrase))
    \o PartIf(g.exclude_term # <<>>, "exclude", ExcludeToken(g.exclude_term))
    \o OrTermsParts(g.or_terms)
    \o PartIf(g.before_date # NoDate, "before", BeforeToken(g.before_date))
    \o PartIf(g.after_date # NoDate, "after", AfterToken(g.after_date))
    \o PartIf(g.related_site # <<>>, "related", RelatedToken(g.related_site))
    \o PartIf(AroundBoth(g), "around", AroundToken(g.around_term1, g.around_x, g.around_term2))
    \o PartIf(g.cache_url # <<>>, "cache", CacheToken(g.cache_url))

\* the token strings of a list of parts
Tokens(parts) == [i \in 1..Len(parts) |-> parts[i].tok]

\* " ".join(parts).strip()
JoinStrip(tokens) == Strip(Join(tokens, <<" ">>))

\* generated_query_parts and general_query of a run on widget values g
PartsOf(g) == AssembleParts(ClearInvalid(g, Rejected(g)))
QueryOf(g) == JoinStrip(Tokens(PartsOf(g)))

\* a button branch that opens whatever the query is
GeneralButtonUnguarded(parts, query, warnings, pressed) ==
    [parts    |-> parts,
     query    |-> query,
     warnings |-> warnings,
     opened   |-> IF pressed THEN <<open_google_search(query)>> ELSE <<>>]

\* st.code(general_query) and the button branch: open_google_search(general_query) or the warning
GeneralButton(parts, query, warnings, pressed) ==
    [parts    |-> parts,
     query    |-> query,
     warnings |-> warnings \cup (IF pressed /\ query = <<>> THEN {W_BuildFirst} ELSE {}),
     opened   |-> IF pressed /\ query # <<>> THEN <<open_google_search(query)>> ELSE <<>>]

GeneralJoin(parts, warnings, pressed) ==
    GeneralButton(parts, JoinStrip(Tokens(parts)), warnings, pressed)

GeneralAssemble(g, rej, pressed) ==
    GeneralJoin(AssembleParts(ClearInvalid(g, rej)), GenInputWarnings(g, rej), pressed)

\* a run whose list starts from what the previous run left in it
RunGeneralCarried(g, pressed) ==
    GeneralJoin(generated_query_parts \o AssembleParts(ClearInvalid(g, Rejected(g))),
                GenInputWarnings(g, Rejected(g)), pressed)

\* the general builder section of one run: validation, assembly, join, st.code, button
RunGeneral(g, pressed) == GeneralAssemble(g, Rejected(g), pressed)

-----------------------------------------------------------------------------
(* Inputs of the General Query Builder *)

Str_example_com == <<"e","x","a","m","p","l","e",".","c","o","m">>

KeywordsValues == {<<"a">>, <<" ","a"," ">>, <<"a"," "," ","b">>, <<" ">>,
                   <<"+","%","&","#","<",">">>}
SiteValues == {Str_example_com, <<"x","!">>}
IntitleValues == {<<"a"," ","b">>}
InurlValues == {<<"g","-","p">>}
FiletypeValues == {<<"p","d","f">>}
ExactValues == {<<"a"," ","b">>, <<" ","a"," ">>}
ExcludeValues == {<<"a">>, <<"a"," ">>}
OrValues == {<<"a">>, <<"a","|","b","|","c">>, <<" ","a"," ","|"," ","b"," ","c"," ">>, <<"|">>,
             <<" ">>, <<"a","|","|","b","|">>}
DateValues == {[y |-> 2010, m |-> 5, d |-> 8], [y |-> 2024, m |-> 12, d |-> 31]}
AroundTermValues == {<<"a">>, <<"b"," ","c">>}
AroundXValues == {12}
RelatedValues == {<<"a",".","c","o">>, <<"a","/","b">>}
CacheValues == {<<"a",".","c","o">>, <<"a",".","c","o","/","p">>, Str_http \o <<"a"," ","b">>,
                Str_https \o <<"a",".","c","o">>}

\* how many text and date widgets hold an input (around_x, a number input, always holds a value)
Filled(g) == Cardinality({f \in DOMAIN g \ {"around_x"} : g[f] # GenDefaults[f]})

\* at most this many builder widgets are filled in at once
MaxFilled == 2

-----------------------------------------------------------------------------
(* Use-case section (selected_use_case_id) *)

UcNone == [id |-> "none"]

\* what a use-case section renders in one run
Rendered(code, warnings, opened) == [code |-> code, warnings |-> warnings, opened |-> opened]

NothingRendered == Rendered(<<>>, {}, <<>>)

\* st.code(query); open_google_search(query)
ShowQuery(query) == Rendered(<<query>>, {}, <<open_google_search(query)>>)

\* st.warning(w) alone
ShowWarning(w) == Rendered(<<>>, {w}, <<>>)

\* `if query: st.code(query); open_google_search(query) / else: st.warning(w)`
ShowQueryOrWarn(query, w) == IF query # <<>> THEN ShowQuery(query) ELSE ShowWarning(w)

\* adds the warnings shown before the button branch
AlsoWarn(shown, r) == [r EXCEPT !.warnings = @ \cup shown]

OneIf(cond, tok) == IF cond THEN <<tok>> ELSE <<>>

\* 2. analyze_competitors: the button branch
W_CompDomain == "Invalid format for 'Competitor Domain'. Please enter a valid domain (e.g., competitor.com)."
W_CompEmpty == "Please enter at least a competitor domain or keywords."

analyze_competitors_defaults ==
    [id |-> "analyze_competitors", comp_domain |-> <<>>, comp_keywords |-> <<>>,
     comp_intitle_checkbox |-> FALSE]

analyze_competitors(u) ==
    IF DomainRejected(u.comp_domain) THEN ShowWarning(W_CompDomain)
    ELSE ShowQueryOrWarn(
             JoinStrip(OneIf(u.comp_domain # <<>>, RelatedToken(u.comp_domain))
                       \o OneIf(u.comp_keywords # <<>>,
                                IF u.comp_intitle_checkbox THEN IntitleToken(u.comp_keywords)
                                ELSE u.comp_keywords)),
             W_CompEmpty)

\* 5. specific_file_types
W_FileSite == "Invalid format for 'Site Domain'. Please enter a valid domain (e.g., yoursite.com)."
W_FileNoType == "Please select at least one file type."
W_FileNoSite == "Please enter a site domain for specific site search."

ScopeSite == "On a specific site"
ScopeBroad == "Broadly across the web"

specific_file_types_defaults ==
    [id |-> "specific_file_types", file_search_scope |-> ScopeSite, file_site_optional |-> <<>>,
     file_types_to_find |-> << <<"p","d","f">> >>, file_keywords |-> <<>>]

RECURSIVE FiletypeTokens(_)
FiletypeTokens(fts) ==
    IF fts = <<>> THEN <<>> ELSE <<FiletypeToken(Head(fts))>> \o FiletypeTokens(Tail(fts))

\* the text input is rendered for the site scope only
FileSiteTyped(u) == IF u.file_search_scope = ScopeSite THEN u.file_site_optional ELSE <<>>

\* the validation outside the button: runs on every rerun
FileSiteWarnings(rejected) == IF rejected THEN {W_FileSite} ELSE {}

\* the button branch, on file_site_optional as the validation left it
FileTypesButton(u, file_site_optional) ==
    IF u.file_types_to_find = <<>> THEN ShowWarning(W_FileNoType)
    ELSE IF u.file_search_scope = ScopeSite /\ file_site_optional = <<>> THEN ShowWarning(W_FileNoSite)
    ELSE ShowQuery(
             JoinStrip(OneIf(file_site_optional # <<>>, SiteToken(file_site_optional))
                       \o OneIf(u.file_keywords # <<>>, u.file_keywords)
                       \o << <<"(">> \o Join(FiletypeTokens(u.file_types_to_find), <<" ", "|", " ">>)
                             \o <<")">> >>))

FileTypesValidated(u, typed, rejected, pressed) ==
    IF pressed
    THEN AlsoWarn(FileSiteWarnings(rejected), FileTypesButton(u, IF rejected THEN <<>> ELSE typed))
    ELSE Rendered(<<>>, FileSiteWarnings(rejected), <<>>)

FileTypesTyped(u, typed, pressed) == FileTypesValidated(u, typed, DomainRejected(typed), pressed)

specific_file_types(u, pressed) == FileTypesTyped(u, FileSiteTyped(u), pressed)

\* 10. competitor_content_speed: the button branch
W_SpeedDomain == "Invalid format for 'Competitor Domain'. Please enter a valid domain (e.g., competitorblog.com)."
W_SpeedEmpty == "Please enter a competitor domain and at least one date."

competitor_content_speed_defaults ==
    [id |-> "competitor_content_speed", comp_content_domain |-> <<>>,
     content_after_date |-> NoDate, content_before_date |-> NoDate]

\* `if query_parts:` tests the list, which always holds the site token
SpeedShow(query_parts) ==
    IF query_parts # <<>> THEN ShowQuery(JoinStrip(query_parts)) ELSE ShowWarning(W_SpeedEmpty)

competitor_content_speed(u) ==
    IF DomainRejected(u.comp_content_domain) THEN ShowWarning(W_SpeedDomain)
    ELSE SpeedShow(<< SiteToken(u.comp_content_domain) >>
                   \o OneIf(u.content_after_date # NoDate, AfterToken(u.content_after_date))
                   \o OneIf(u.content_before_date # NoDate, BeforeToken(u.content_before_date)))

\* 13. prolific_guest_bloggers: the button branch
W_BloggerEmpty == "Please enter a niche/keywords."

Str_inurl_author == <<"i","n","u","r","l",":","a","u","t","h","o","r","/">>

UpperCase == <<"A","B","C","D","E","F","G","H","I","J","K","L","M",
               "N","O","P","Q","R","S","T","U","V","W","X","Y","Z">>
LowerCase == <<"a","b","c","d","e","f","g","h","i","j","k","l","m",
               "n","o","p","q","r","s","t","u","v","w","x","y","z">>

LowerChar(c) ==
    IF \E i \in 1..26 : UpperCase[i] = c
    THEN LowerCase[CHOOSE i \in 1..26 : UpperCase[i] = c]
    ELSE c

\* specific_author.lower().replace(" ", "-")
formatted_author(a) == [i \in 1..Len(a) |-> IF a[i] = " " THEN "-" ELSE LowerChar(a[i])]

prolific_guest_bloggers_defaults ==
    [id |-> "prolific_guest_bloggers", blogger_niche |-> <<>>, specific_author |-> <<>>]

prolific_guest_bloggers(u) ==
    ShowQueryOrWarn(
        JoinStrip(OneIf(u.blogger_niche # <<>>, u.blogger_niche)
                  \o (IF u.specific_author # <<>>
                      THEN << Str_inurl_author \o formatted_author(u.specific_author) >>
                      ELSE << Str_inurl_author >>)),
        W_BloggerEmpty)

\* 15. numeric_range: the button branch
W_Range == "Minimum value must be less than maximum value."

numeric_range_defaults ==
    [id |-> "numeric_range", numeric_keywords |-> <<>>, min_value |-> 10, max_value |-> 100,
     currency_symbol |-> <<>>]

\* f"{currency_symbol}{min_value}..{currency_symbol}{max_value}"
range_query(u) ==
    u.currency_symbol \o IntToStr(u.min_value) \o <<".", ".">>
    \o u.currency_symbol \o IntToStr(u.max_value)

numeric_range(u) ==
    IF u.min_value >= u.max_value THEN ShowWarning(W_Range)
    ELSE ShowQuery(Strip(u.numeric_keywords \o <<" ">> \o range_query(u)))

\* 21. outdated_content: the button branch
W_OutdatedDomain == "Invalid format for domain. Please enter a valid domain (e.g., yoursite.com)."
W_OutdatedEmpty == "Please enter your website domain."

\* datetime.now().year - 2 on the day of the run
DefaultOutdatedYear == [y |-> 2024]

outdated_content_defaults ==
    [id |-> "outdated_content", outdated_domain |-> <<>>,
     outdated_year_before |-> DefaultOutdatedYear.y, outdated_keywords |-> <<>>]

outdated_content(u) ==
    IF u.outdated_domain = <<>> THEN ShowWarning(W_OutdatedEmpty)
    ELSE IF ~is_valid_domain(u.outdated_domain) THEN ShowWarning(W_OutdatedDomain)
    ELSE ShowQuery(
             JoinStrip(<< SiteToken(u.outdated_domain) >>
                       \o OneIf(u.outdated_keywords # <<>>, ExactToken(u.outdated_keywords))
                       \o << Op_before \o IntToStr(u.outdated_year_before)
                             \o <<"-","0","1","-","0","1">> >>))

\* [f"{pre}{x}{post}" for x in items]
Wrap(items, pre, post) == [i \in 1..Len(items) |-> pre \o items[i] \o post]

\* 1. indexing_issues: the button branch
indexing_issues(u) ==
    IF u.indexing_domain = <<>> THEN ShowWarning("Please enter a domain.")
    ELSE IF ~is_valid_domain(u.indexing_domain)
         THEN ShowWarning("Invalid format for domain. Please enter a valid domain (e.g., yoursite.com).")
    ELSE ShowQuery(SiteToken(u.indexing_domain))

\* 3. guest_post_opportunities: the button branch
guest_post_opportunities(u) ==
    IF u.guest_niche # <<>> /\ u.guest_phrases # <<>>
    THEN ShowQuery(u.guest_niche \o <<" ", "(">> \o Join(u.guest_phrases, <<" ", "|", " ">>) \o <<")">>)
    ELSE ShowWarning("Please enter a niche and select at least one phrase.")

\* 4. resource_page_opportunities: the button branch
resource_page_opportunities(u) ==
    IF u.resource_topic # <<>>
    THEN ShowQuery(u.resource_topic \o
          <<" ","(","i","n","t","i","t","l","e",":","r","e","s","o","u","r","c","e","s"," ","|",
          " ","i","n","u","r","l",":","r","e","s","o","u","r","c","e"," ","|"," ","i","n","t",
          "i","t","l","e",":","l","i","n","k","s"," ","|"," ","i","n","u","r","l",":","l","i",
          "n","k","s"," ","|"," ","i","n","t","i","t","l","e",":","d","i","r","e","c","t","o",
          "r","y",")">>)
    ELSE ShowWarning("Please enter a topic.")

\* 6. internal_linking: the button branch
internal_linking(u) ==
    IF DomainRejected(u.internal_link_site)
    THEN ShowWarning("Invalid format for 'Your Blog/Site URL'. Please enter a valid domain or URL (e.g., yoursite.com/blog).")
    ELSE IF u.internal_link_site # <<>> /\ u.internal_link_keyword # <<>>
         THEN ShowQuery(SiteToken(u.internal_link_site) \o <<" ">> \o ExactToken(u.internal_link_keyword))
    ELSE ShowWarning("Please enter your site URL and a target keyword.")

\* 7. best_listicles: the button branch
best_listicles(u) ==
    IF u.your_brand # <<>> /\ u.listicle_topic # <<>>
    THEN ShowQuery(<<"i","n","t","i","t","l","e",":","b","e","s","t"," ">> \o ExactToken(u.listicle_topic)
                   \o <<" ", "-">> \o ExactToken(u.your_brand))
    ELSE ShowWarning("Please enter your brand name and a topic.")

\* [x.strip() for x in text.split(sep) if x.strip()]
stripped_pieces(text, sep) == SelectSeq(StripAll(Split(text, sep)), NonEmptyString)

\* 8. competitor_reviews: the button branch, on the list of brands
competitor_brands_query(competitor_brands) ==
    IF competitor_brands # <<>>
    THEN ShowQuery(<<"a","l","l","i","n","t","i","t","l","e",":","r","e","v","i","e","w"," ","(">>
                   \o Join(Wrap(competitor_brands, Quote, Quote), <<" ", "O", "R", " ">>) \o <<")">>)
    ELSE ShowWarning("Please enter at least one competitor brand name.")

competitor_reviews(u) == competitor_brands_query(stripped_pieces(u.competitor_brands_input, "\n"))

\* 9. qa_sites: the button branch, on the list of topics
qa_topics_query(qa_topics) ==
    IF qa_topics # <<>>
    THEN ShowQuery(<<"(","s","i","t","e",":","q","u","o","r","a",".","c","o","m"," ","O","R"," ","s","i",
          "t","e",":","r","e","d","d","i","t",".","c","o","m",")"," ","i","n","u","r","l",":",
          "(">>
                   \o Join(qa_topics, <<" ", "|", " ">>) \o <<")">>)
    ELSE ShowWarning("Please enter topic keywords.")

qa_sites(u) == qa_topics_query(stripped_pieces(u.qa_topics_input, ","))

\* 11. non_secure_pages: the button branch
non_secure_pages(u) ==
    IF u.non_secure_domain = <<>> THEN ShowWarning("Please enter a domain.")
    ELSE IF ~is_valid_domain(u.non_secure_domain)
         THEN ShowWarning("Invalid format for domain. Please enter a valid domain (e.g., yoursite.com).")
    ELSE ShowQuery(SiteToken(u.non_secure_domain) \o <<" ","-","i","n","u","r","l",":","h","t","t","p","s">>)

\* 12. plagiarized_content: the button branch
plagiarized_content(u) ==
    IF u.plagiarism_text # <<>>
    THEN ShowQuery(<<"a","l","l","i","n","t","e","x","t",":">> \o ExactToken(u.plagiarism_text))
    ELSE ShowWarning("Please enter a text snippet.")

\* 14. competitor_top_pages: the button branch
competitor_top_pages(u) ==
    IF DomainRejected(u.comp_top_pages_domain)
    THEN ShowWarning("Invalid format for 'Competitor Domain'. Please enter a valid domain (e.g., moz.com).")
    ELSE IF u.comp_top_pages_domain # <<>> /\ u.comp_top_pages_keyword # <<>>
         THEN ShowQuery(SiteToken(u.comp_top_pages_domain) \o <<" ">> \o InurlToken(u.comp_top_pages_keyword))
    ELSE ShowWarning("Please enter both competitor domain and a keyword/topic.")

\* 16. credible_sources: the button branch
credible_sources(u) ==
    IF u.source_keywords # <<>> /\ u.source_file_types # <<>>
    THEN ShowQuery(u.source_keywords \o <<" ", "(">>
                   \o Join(FiletypeTokens(u.source_file_types), <<" ", "|", " ">>) \o <<")">>)
    ELSE ShowWarning("Please enter keywords and select at least one file type.")

\* p.replace('"', '').replace(' ', '-')
RECURSIVE phrase_slug(_)
phrase_slug(p) ==
    IF p = <<>> THEN <<>>
    ELSE (IF Head(p) = "\"" THEN <<>> ELSE IF Head(p) = " " THEN <<"-">> ELSE <<Head(p)>>)
         \o phrase_slug(Tail(p))

\* 17. infographic_submission: the button branch
infographic_submission(u) ==
    IF u.infographic_niche # <<>> /\ u.infographic_phrases # <<>>
    THEN ShowQuery(u.infographic_niche \o <<" ", "(">>
                   \o Join([i \in 1..Len(u.infographic_phrases) |->
                               IntitleToken(u.infographic_phrases[i]) \o <<" ","O","R"," ","i","n","u","r","l",":">>
                               \o phrase_slug(u.infographic_phrases[i])],
                           <<" ", "|", " ">>)
                   \o <<")">>)
    ELSE ShowWarning("Please enter a niche and select at least one phrase.")

\* 18. social_profiles: the button branch
social_profiles(u) ==
    IF u.profile_name # <<>> /\ u.social_platforms # <<>>
    THEN ShowQuery(ExactToken(u.profile_name) \o <<" ", "(">>
                   \o Join(Wrap(u.social_platforms, Op_site, <<>>), <<" ", "O", "R", " ">>) \o <<")">>)
    ELSE ShowWarning("Please enter a name and select at least one platform.")

\* an invalid custom domain that leaves the selected sites in the list
all_sites_selected_kept(selected, custom) ==
    IF custom # <<>> /\ is_valid_domain(custom) THEN Append(selected, custom) ELSE selected

\* all_sites of the two flows with a custom domain: the selected sites, with a valid custom
\* domain appended, or nothing at all when the custom domain is invalid
all_sites(selected, custom) ==
    IF custom # <<>> /\ is_valid_domain(custom) THEN Append(selected, custom)
    ELSE IF custom # <<>> THEN <<>>
    ELSE selected

\* 19. social_conversations: the button branch
forum_query(topic, sites) ==
    IF sites # <<>>
    THEN ShowQuery(<<"(">> \o Join(Wrap(sites, Op_site, <<>>), <<" ", "O", "R", " ">>) \o <<")", " ">>
                   \o ExactToken(topic)
                   \o <<" ","(","i","n","t","e","x","t",":","q","u","e","s","t","i","o","n"," ","|"," ","i",
          "n","t","e","x","t",":","d","i","s","c","u","s","s","i","o","n"," ","|"," ","i","n",
          "t","i","t","l","e",":","f","o","r","u","m",")">>)
    ELSE ShowWarning("Please enter a topic and select/add at least one forum site.")

social_conversations(u) ==
    IF u.conversation_topic # <<>> /\ (u.forum_sites # <<>> \/ u.custom_forum_site # <<>>)
    THEN AlsoWarn(IF DomainRejected(u.custom_forum_site)
                  THEN {"Invalid format for 'Custom Forum Domain'. Please enter a valid domain."}
                  ELSE {},
                  forum_query(u.conversation_topic, all_sites(u.forum_sites, u.custom_forum_site)))
    ELSE ShowWarning("Please enter a topic and select/add at least one forum site.")

\* 20. platform_mentions: the button branch
platform_query(keywords, sites) ==
    IF sites # <<>>
    THEN ShowQuery(ExactToken(keywords) \o <<" ", "(">>
                   \o Join(Wrap(sites, Op_site, <<>>), <<" ", "O", "R", " ">>) \o <<")">>)
    ELSE ShowWarning("Please enter keywords and select/add at least one platform site.")

platform_mentions(u) ==
    IF u.mention_keywords # <<>> /\ (u.platform_sites # <<>> \/ u.custom_platform_site # <<>>)
    THEN AlsoWarn(IF DomainRejected(u.custom_platform_site)
                  THEN {"Invalid format for 'Custom Platform Domain'. Please enter a valid domain."}
                  ELSE {},
                  platform_query(u.mention_keywords, all_sites(u.platform_sites, u.custom_platform_site)))
    ELSE ShowWarning("Please enter keywords and select/add at least one platform site.")

\* 22. sponsored_post_opportunities: the button branch
sponsored_post_opportunities(u) ==
    IF u.sponsored_niche # <<>> /\ u.sponsored_phrases # <<>>
    THEN ShowQuery(u.sponsored_niche \o <<" ", "(">>
                   \o Join([i \in 1..Len(u.sponsored_phrases) |->
                               <<"i","n","t","e","x","t",":">> \o ExactToken(u.sponsored_phrases[i]) \o <<" ","O","R"," ">>
                               \o IntitleToken(u.sponsored_phrases[i])],
                           <<" ", "|", " ">>)
                   \o <<")">>)
    ELSE ShowWarning("Please enter a niche and select at least one phrase.")

\* 23. competitor_content_by_topic: the button branch
competitor_content_by_topic(u) ==
    IF DomainRejected(u.comp_content_topic_domain)
    THEN ShowWarning("Invalid format for 'Competitor Domain'. Please enter a valid domain (e.g., competitor.com).")
    ELSE IF u.comp_content_topic_domain # <<>> /\ u.comp_content_topic_keywords # <<>>
         THEN ShowQuery(SiteToken(u.comp_content_topic_domain) \o <<" ">>
                        \o ExactToken(u.comp_content_topic_keywords))
    ELSE ShowWarning("Please enter both competitor domain and topic keywords.")

\* what the selected use-case section renders in a run in which its button is not pressed:
\* the statements outside `if st.button(...)`
UcIdle(u) ==
    IF u.id = "specific_file_types" THEN specific_file_types(u, FALSE) ELSE NothingRendered

\* options of the multiselects
Phrase_write_for_us == <<"\"","w","r","i","t","e"," ","f","o","r"," ","u","s","\"">>
Phrase_contribute == <<"\"","c","o","n","t","r","i","b","u","t","e","\"">>
Phrase_submit_infographic == <<"\"","s","u","b","m","i","t"," ","i","n","f","o","g","r","a","p","h","i","c","\"">>
Phrase_infographic_submission == <<"\"","i","n","f","o","g","r","a","p","h","i","c"," ","s","u","b","m","i","s","s","i",
          "o","n","\"">>
Phrase_sponsored_post == <<"\"","s","p","o","n","s","o","r","e","d"," ","p","o","s","t","\"">>
Site_linkedin == <<"l","i","n","k","e","d","i","n",".","c","o","m">>
Site_twitter == <<"t","w","i","t","t","e","r",".","c","o","m">>
Site_reddit == <<"r","e","d","d","i","t",".","c","o","m">>
Site_quora == <<"q","u","o","r","a",".","c","o","m">>
Site_docs_google == <<"d","o","c","s",".","g","o","o","g","l","e",".","c","o","m">>

\* the widgets of a use case as first rendered
UcDefaults(id) ==
    CASE id = "none" -> UcNone
      [] id = "analyze_competitors" -> analyze_competitors_defaults
      [] id = "specific_file_types" -> specific_file_types_defaults
      [] id = "competitor_content_speed" -> competitor_content_speed_defaults
      [] id = "prolific_guest_bloggers" -> prolific_guest_bloggers_defaults
      [] id = "numeric_range" -> numeric_range_defaults
      [] id = "outdated_content" -> outdated_content_defaults
      [] id = "indexing_issues" -> [id |-> id, indexing_domain |-> <<>>]
      [] id = "guest_post_opportunities" ->
            [id |-> id, guest_niche |-> <<>>, guest_phrases |-> << Phrase_write_for_us >>]
      [] id = "resource_page_opportunities" -> [id |-> id, resource_topic |-> <<>>]
      [] id = "internal_linking" ->
            [id |-> id, internal_link_site |-> <<>>, internal_link_keyword |-> <<>>]
      [] id = "best_listicles" -> [id |-> id, your_brand |-> <<>>, listicle_topic |-> <<>>]
      [] id = "competitor_reviews" -> [id |-> id, competitor_brands_input |-> <<>>]
      [] id = "qa_sites" -> [id |-> id, qa_topics_input |-> <<>>]
      [] id = "non_secure_pages" -> [id |-> id, non_secure_domain |-> <<>>]
      [] id = "plagiarized_content" -> [id |-> id, plagiarism_text |-> <<>>]
      [] id = "competitor_top_pages" ->
            [id |-> id, comp_top_pages_domain |-> <<>>, comp_top_pages_keyword |-> <<>>]
      [] id = "credible_sources" ->
            [id |-> id, source_keywords |-> <<>>, source_file_types |-> << <<"p","d","f">> >>]
      [] id = "infographic_submission" ->
            [id |-> id, infographic_niche |-> <<>>, infographic_phrases |-> << Phrase_submit_infographic >>]
      [] id = "social_profiles" ->
            [id |-> id, profile_name |-> <<>>, social_platforms |-> <<Site_linkedin, Site_twitter>>]
      [] id = "social_conversations" ->
            [id |-> id, conversation_topic |-> <<>>, forum_sites |-> <<Site_reddit, Site_quora>>,
             custom_forum_site |-> <<>>]
      [] id = "platform_mentions" ->
            [id |-> id, mention_keywords |-> <<>>, platform_sites |-> <<Site_docs_google>>,
             custom_platform_site |-> <<>>]
      [] id = "sponsored_post_opportunities" ->
            [id |-> id, sponsored_niche |-> <<>>, sponsored_phrases |-> << Phrase_sponsored_post >>]
      [] id = "competitor_content_by_topic" ->
            [id |-> id, comp_content_topic_domain |-> <<>>, comp_content_topic_keywords |-> <<>>]

\* the use cases whose widgets are edited by EditUseCase
PlainUseCaseIds ==
    {"indexing_issues", "guest_post_opportunities", "resource_page_opportunities",
     "internal_linking", "best_listicles", "competitor_reviews", "qa_sites",
     "non_secure_pages", "plagiarized_content", "competitor_top_pages", "credible_sources",
     "infographic_submission", "social_profiles", "social_conversations",
     "platform_mentions", "sponsored_post_opportunities", "competitor_content_by_topic"}

UseCaseIds ==
    {"none", "analyze_competitors", "specific_file_types", "competitor_content_speed",
     "prolific_guest_bloggers", "numeric_range", "outdated_content"} \cup PlainUseCaseIds

(* Inputs of the use cases *)
UcDomainValues == {<<>>, <<"a",".","c","o">>, <<"x","!">>}
UcTextValues == {<<>>, <<"a">>, <<" ","a"," ","B"," ">>}
UcFileTypeChoices == {<<>>, << <<"p","d","f">> >>, << <<"p","d","f">>, <<"d","o","c">> >>}
UcNumberValues == {0, 10, 100}
UcCurrencyValues == {<<>>, <<"$">>, <<" ">>}
UcYearValues == {1990, DefaultOutdatedYear.y}

\* the values tried in the widget `field` of the use cases of PlainUseCaseIds
FieldValues(field) ==
    CASE field \in {"indexing_domain", "non_secure_domain", "comp_top_pages_domain",
                    "comp_content_topic_domain", "custom_forum_site", "custom_platform_site"}
            -> UcDomainValues
      [] field = "internal_link_site" -> UcDomainValues \cup {<<"a",".","c","o","/","b">>}
      [] field = "guest_phrases" ->
            {<<>>, << Phrase_write_for_us >>, << Phrase_write_for_us, Phrase_contribute >>}
      [] field = "competitor_brands_input" ->
            {<<>>, <<"a">>, <<"a","\n"," ","b"," ","\n">>, <<"\n">>}
      [] field = "qa_topics_input" -> {<<>>, <<"a">>, <<"a",","," ","b",",">>, <<",">>}
      [] field = "source_file_types" -> UcFileTypeChoices
      [] field = "infographic_phrases" ->
            {<<>>, << Phrase_submit_infographic >>,
             << Phrase_submit_infographic, Phrase_infographic_submission >>}
      [] field = "social_platforms" -> {<<>>, <<Site_linkedin>>, <<Site_linkedin, Site_twitter>>}
      [] field = "forum_sites" -> {<<>>, <<Site_reddit, Site_quora>>}
      [] field = "platform_sites" -> {<<>>, <<Site_docs_google>>}
      [] field = "sponsored_phrases" -> {<<>>, << Phrase_sponsored_post >>}
      [] OTHER -> UcTextValues

-----------------------------------------------------------------------------
(* One run of the whole script: the use-case section, then the builder *)

Commit(g, u, c, r) ==
    /\ gen' = g
    /\ generated_query_parts' = r.parts
    /\ general_query' = r.query
    /\ gen_warnings' = r.warnings
    /\ gen_opened' = r.opened
    /\ uc' = u
    /\ uc_code' = c.code
    /\ uc_warnings' = c.warnings
    /\ uc_opened' = c.opened
    /\ UNCHANGED <<domain, domain_ok>>

\* a run on builder widgets g and use-case widgets u, in which the use-case section
\* renders c and the builder's open button is pressed or not
RunScript(g, u, c, gen_pressed) == Commit(g, u, c, RunGeneral(g, gen_pressed))

\* a widget edit of the builder reruns the script with no button pressed;
\* the builder is filled in while no use case is selected
EditGen(g) ==
    /\ uc = UcNone
    /\ Filled(g) <= MaxFilled
    /\ g # gen
    /\ RunScript(g, uc, UcIdle(uc), FALSE)

SetKeywords == \E v \in KeywordsValues \cup {<<>>} : EditGen([gen EXCEPT !.keywords = v])
SetSite == \E v \in SiteValues \cup {<<>>} : EditGen([gen EXCEPT !.site_domain = v])
SetIntitle == \E v \in IntitleValues \cup {<<>>} : EditGen([gen EXCEPT !.intitle_phrase = v])
SetInurl == \E v \in InurlValues \cup {<<>>} : EditGen([gen EXCEPT !.inurl_phrase = v])
SetFiletype == \E v \in FiletypeValues \cup {<<>>} : EditGen([gen EXCEPT !.filetype_ext = v])
SetExact == \E v \in ExactValues \cup {<<>>} : EditGen([gen EXCEPT !.exact_match_phrase = v])
SetExclude == \E v \in ExcludeValues \cup {<<>>} : EditGen([gen EXCEPT !.exclude_term = v])
SetOrTerms == \E v \in OrValues \cup {<<>>} : EditGen([gen EXCEPT !.or_terms = v])
SetBefore == \E v \in DateValues \cup {NoDate} : EditGen([gen EXCEPT !.before_date = v])
SetAfter == \E v \in DateValues \cup {NoDate} : EditGen([gen EXCEPT !.after_date = v])
SetAroundTerm1 == \E v \in AroundTermValues \cup {<<>>} : EditGen([gen EXCEPT !.around_term1 = v])
SetAroundTerm2 == \E v \in AroundTermValues \cup {<<>>} : EditGen([gen EXCEPT !.around_term2 = v])
SetAroundX == \E v \in AroundXValues \cup {5} : EditGen([gen EXCEPT !.around_x = v])
SetRelated == \E v \in RelatedValues \cup {<<>>} : EditGen([gen EXCEPT !.related_site = v])
SetCache == \E v \in CacheValues \cup {<<>>} : EditGen([gen EXCEPT !.cache_url = v])

\* "Open General Query in Google" pressed
PressOpenGeneral == RunScript(gen, uc, UcIdle(uc), TRUE)

\* the selectbox: the widgets of the use case left are dropped, those of the new one start
\* fresh; a use case is selected while the builder is empty
SelectUseCase ==
    \E id \in UseCaseIds :
        /\ Filled(gen) = 0
        /\ id # uc.id
        /\ RunScript(gen, UcDefaults(id), UcIdle(UcDefaults(id)), FALSE)

\* the edits of one widget of the selected use case
CompetitorsEdits(u) ==
    {[u EXCEPT !.comp_domain = v] : v \in UcDomainValues}
    \cup {[u EXCEPT !.comp_keywords = v] : v \in UcTextValues}
    \cup {[u EXCEPT !.comp_intitle_checkbox = v] : v \in BOOLEAN}

FileTypesEdits(u) ==
    {[u EXCEPT !.file_search_scope = v,
               !.file_site_optional = IF v = ScopeBroad THEN <<>> ELSE @] : v \in {ScopeSite, ScopeBroad}}
    \cup (IF u.file_search_scope = ScopeSite
          THEN {[u EXCEPT !.file_site_optional = v] : v \in UcDomainValues} ELSE {})
    \cup {[u EXCEPT !.file_types_to_find = v] : v \in UcFileTypeChoices}
    \cup {[u EXCEPT !.file_keywords = v] : v \in UcTextValues}

ContentSpeedEdits(u) ==
    {[u EXCEPT !.comp_content_domain = v] : v \in UcDomainValues}
    \cup {[u EXCEPT !.content_after_date = v] : v \in DateValues \cup {NoDate}}
    \cup {[u EXCEPT !.content_before_date = v] : v \in DateValues \cup {NoDate}}

GuestBloggersEdits(u) ==
    {[u EXCEPT !.blogger_niche = v] : v \in UcTextValues}
    \cup {[u EXCEPT !.specific_author = v] : v \in UcTextValues}

NumericRangeEdits(u) ==
    {[u EXCEPT !.numeric_keywords = v] : v \in UcTextValues}
    \cup {[u EXCEPT !.min_value = v] : v \in UcNumberValues}
    \cup {[u EXCEPT !.max_value = v] : v \in UcNumberValues}
    \cup {[u EXCEPT !.currency_symbol = v] : v \in UcCurrencyValues}

OutdatedEdits(u) ==
    {[u EXCEPT !.outdated_domain = v] : v \in UcDomainValues}
    \cup {[u EXCEPT !.outdated_year_before = v] : v \in UcYearValues}
    \cup {[u EXCEPT !.outdated_keywords = v] : v \in UcTextValues}

\* a widget edit of the selected use case reruns the script with no button pressed
EditCompetitors ==
    /\ uc.id = "analyze_competitors"
    /\ \E u \in CompetitorsEdits(uc) \ {uc} : RunScript(gen, u, UcIdle(u), FALSE)

EditFileTypes ==
    /\ uc.id = "specific_file_types"
    /\ \E u \in FileTypesEdits(uc) \ {uc} : RunScript(gen, u, UcIdle(u), FALSE)

EditContentSpeed ==
    /\ uc.id = "competitor_content_speed"
    /\ \E u \in ContentSpeedEdits(uc) \ {uc} : RunScript(gen, u, UcIdle(u), FALSE)

EditGuestBloggers ==
    /\ uc.id = "prolific_guest_bloggers"
    /\ \E u \in GuestBloggersEdits(uc) \ {uc} : RunScript(gen, u, UcIdle(u), FALSE)

EditNumericRange ==
    /\ uc.id = "numeric_range"
    /\ \E u \in NumericRangeEdits(uc) \ {uc} : RunScript(gen, u, UcIdle(u), FALSE)

EditOutdated ==
    /\ uc.id = "outdated_content"
    /\ \E u \in OutdatedEdits(uc) \ {uc} : RunScript(gen, u, UcIdle(u), FALSE)

\* the Generate button of the selected use case
PressCompetitors ==
    /\ uc.id = "analyze_competitors"
    /\ RunScript(gen, uc, analyze_competitors(uc), FALSE)

PressFileTypes ==
    /\ uc.id = "specific_file_types"
    /\ RunScript(gen, uc, specific_file_types(uc, TRUE), FALSE)

PressContentSpeed ==
    /\ uc.id = "competitor_content_speed"
    /\ RunScript(gen, uc, competitor_content_speed(uc), FALSE)

PressGuestBloggers ==
    /\ uc.id = "prolific_guest_bloggers"
    /\ RunScript(gen, uc, prolific_guest_bloggers(uc), FALSE)

PressNumericRange ==
    /\ uc.id = "numeric_range"
    /\ RunScript(gen, uc, numeric_range(uc), FALSE)

PressOutdated ==
    /\ uc.id = "outdated_content"
    /\ RunScript(gen, uc, outdated_content(uc), FALSE)

\* a widget edit of one of the other use cases reruns the script with no button pressed
EditUseCase ==
    /\ uc.id \in PlainUseCaseIds
    /\ \E f \in DOMAIN uc \ {"id"} :
          \E v \in FieldValues(f) \ {uc[f]} :
              RunScript(gen, [uc EXCEPT ![f] = v], NothingRendered, FALSE)

PressIndexing ==
    /\ uc.id = "indexing_issues"
    /\ RunScript(gen, uc, indexing_issues(uc), FALSE)

PressGuestPost ==
    /\ uc.id = "guest_post_opportunities"
    /\ RunScript(gen, uc, guest_post_opportunities(uc), FALSE)

PressResourcePage ==
    /\ uc.id = "resource_page_opportunities"
    /\ RunScript(gen, uc, resource_page_opportunities(uc), FALSE)

PressInternalLinks ==
    /\ uc.id = "internal_linking"
    /\ RunScript(gen, uc, internal_linking(uc), FALSE)

PressListicles ==
    /\ uc.id = "best_listicles"
    /\ RunScript(gen, uc, best_listicles(uc), FALSE)

PressCompetitorReviews ==
    /\ uc.id = "competitor_reviews"
    /\ RunScript(gen, uc, competitor_reviews(uc), FALSE)

PressQaSites ==
    /\ uc.id = "qa_sites"
    /\ RunScript(gen, uc, qa_sites(uc), FALSE)

PressNonSecure ==
    /\ uc.id = "non_secure_pages"
    /\ RunScript(gen, uc, non_secure_pages(uc), FALSE)

PressPlagiarism ==
    /\ uc.id = "plagiarized_content"
    /\ RunScript(gen, uc, plagiarized_content(uc), FALSE)

PressCompTopPages ==
    /\ uc.id = "competitor_top_pages"
    /\ RunScript(gen, uc, competitor_top_pages(uc), FALSE)

PressCredibleSources ==
    /\ uc.id = "credible_sources"
    /\ RunScript(gen, uc, credible_sources(uc), FALSE)

PressInfographic ==
    /\ uc.id = "infographic_submission"
    /\ RunScript(gen, uc, infographic_submission(uc), FALSE)

PressSocialProfiles ==
    /\ uc.id = "social_profiles"
    /\ RunScript(gen, uc, social_profiles(uc), FALSE)

PressSocialConversations ==
    /\ uc.id = "social_conversations"
    /\ RunScript(gen, uc, social_conversations(uc), FALSE)

PressPlatformMentions ==
    /\ uc.id = "platform_mentions"
    /\ RunScript(gen, uc, platform_mentions(uc), FALSE)

PressSponsoredPost ==
    /\ uc.id = "sponsored_post_opportunities"
    /\ RunScript(gen, uc, sponsored_post_opportunities(uc), FALSE)

PressCompContentTopic ==
    /\ uc.id = "competitor_content_by_topic"
    /\ RunScript(gen, uc, competitor_content_by_topic(uc), FALSE)

Init ==
    /\ gen = GenDefaults
    /\ generated_query_parts = <<>>
    /\ general_query = <<>>
    /\ gen_warnings = {}
    /\ gen_opened = <<>>
    /\ uc = UcNone
    /\ uc_code = <<>>
    /\ uc_warnings = {}
    /\ uc_opened = <<>>
    /\ domain = <<>>
    /\ domain_ok = is_valid_domain(<<>>)

Next ==
    \/ SetKeywords
    \/ SetSite
    \/ SetIntitle
    \/ SetInurl
    \/ SetFiletype
    \/ SetExact
    \/ SetExclude
    \/ SetOrTerms
    \/ SetBefore
    \/ SetAfter
    \/ SetAroundTerm1
    \/ SetAroundTerm2
    \/ SetAroundX
    \/ SetRelated
    \/ SetCache
    \/ PressOpenGeneral
    \/ SelectUseCase
    \/ EditCompetitors
    \/ PressCompetitors
    \/ EditFileTypes
    \/ PressFileTypes
    \/ EditContentSpeed
    \/ PressContentSpeed
    \/ EditGuestBloggers
    \/ PressGuestBloggers
    \/ EditNumericRange
    \/ PressNumericRange
    \/ EditOutdated
    \/ PressOutdated
    \/ EditUseCase
    \/ PressIndexing
    \/ PressGuestPost
    \/ PressResourcePage
    \/ PressInternalLinks
    \/ PressListicles
    \/ PressCompetitorReviews
    \/ PressQaSites
    \/ PressNonSecure
    \/ PressPlagiarism
    \/ PressCompTopPages
    \/ PressCredibleSources
    \/ PressInfographic
    \/ PressSocialProfiles
    \/ PressSocialConversations
    \/ PressPlatformMentions
    \/ PressSponsoredPost
    \/ PressCompContentTopic

Spec == Init /\ [][Next]_vars

-----------------------------------------------------------------------------
(* The domain check on its own: a domain text input is typed one character at a time
   and every rerun hands its value to is_valid_domain *)

DomainChars == {"a", "1", "-", ".", " ", "/", "\n"}

\* the longest domain text typed
MaxDomainLen == 5

TypeDomainChar ==
    \E c \in DomainChars :
        /\ Len(domain) < MaxDomainLen
        /\ domain' = Append(domain, c)
        /\ domain_ok' = is_valid_domain(domain')
        /\ UNCHANGED <<gen, generated_query_parts, general_query, gen_warnings, gen_opened,
                       uc, uc_code, uc_warnings, uc_opened>>

NextDomain == TypeDomainChar

SpecDomain == Init /\ [][NextDomain]_vars

-----------------------------------------------------------------------------
(* Claims about the General Query Builder *)

\* the stated order of the tokens
CanonicalOrder ==
    <<"keywords", "site", "intitle", "inurl", "filetype", "exact", "exclude", "or_terms",
      "before", "after", "related", "around", "cache">>

Rank(f) == CHOOSE i \in 1..Len(CanonicalOrder) : CanonicalOrder[i] = f

PartFields == {generated_query_parts[i].field : i \in 1..Len(generated_query_parts)}

\* the generated list holds exactly one part of field f, and its token is t
HasToken(f, t) ==
    /\ Cardinality({i \in 1..Len(generated_query_parts) : generated_query_parts[i].field = f}) = 1
    /\ \E i \in 1..Len(generated_query_parts) :
          generated_query_parts[i].field = f /\ generated_query_parts[i].tok = t

C2_PrescribedTokens ==
    /\ gen.keywords # <<>> => HasToken("keywords", gen.keywords)
    /\ (gen.site_domain # <<>> /\ is_valid_domain(gen.site_domain))
          => HasToken("site", <<"s","i","t","e",":">> \o gen.site_domain)
    /\ gen.intitle_phrase # <<>>
          => HasToken("intitle", <<"i","n","t","i","t","l","e",":","\"">> \o gen.intitle_phrase \o <<"\"">>)
    /\ gen.inurl_phrase # <<>>
          => HasToken("inurl", <<"i","n","u","r","l",":","\"">> \o gen.inurl_phrase \o <<"\"">>)
    /\ gen.filetype_ext # <<>>
          => HasToken("filetype", <<"f","i","l","e","t","y","p","e",":">> \o gen.filetype_ext)
    /\ gen.exact_match_phrase # <<>>
          => HasToken("exact", <<"\"">> \o gen.exact_match_phrase \o <<"\"">>)
    /\ gen.exclude_term # <<>> => HasToken("exclude", <<"-">> \o gen.exclude_term)
    /\ (gen.related_site # <<>> /\ is_valid_domain(gen.related_site))
          => HasToken("related", <<"r","e","l","a","t","e","d",":">> \o gen.related_site)
    /\ (gen.cache_url # <<>> /\ (\/ is_valid_domain(gen.cache_url)
                                 \/ StartsWith(gen.cache_url, <<"h","t","t","p",":","/","/">>)
                                 \/ StartsWith(gen.cache_url, <<"h","t","t","p","s",":","/","/">>)))
          => HasToken("cache", <<"c","a","c","h","e",":">> \o gen.cache_url)
    /\ gen = [GenDefaults EXCEPT !.site_domain = Str_example_com]
          => general_query = <<"s","i","t","e",":","e","x","a","m","p","l","e",".","c","o","m">>

\* a quoted token and an operator:value token have been generated together
C2_Witness ==
    /\ gen.intitle_phrase # <<>>
    /\ gen.filetype_ext # <<>>
    /\ Len(generated_query_parts) = 2

\* C3: a field whose value is the empty string (or an unset date) contributes no token;
\* when every field is empty the generated query is the empty string.
C3_EmptyFieldNoToken ==
    /\ gen.keywords = <<>> => "keywords" \notin PartFields
    /\ gen.site_domain = <<>> => "site" \notin PartFields
    /\ gen.intitle_phrase = <<>> => "intitle" \notin PartFields
    /\ gen.inurl_phrase = <<>> => "inurl" \notin PartFields
    /\ gen.filetype_ext = <<>> => "filetype" \notin PartFields
    /\ gen.exact_match_phrase = <<>> => "exact" \notin PartFields
    /\ gen.exclude_term = <<>> => "exclude" \notin PartFields
    /\ gen.or_terms = <<>> => "or_terms" \notin PartFields
    /\ gen.before_date = NoDate => "before" \notin PartFields
    /\ gen.after_date = NoDate => "after" \notin PartFields
    /\ gen.related_site = <<>> => "related" \notin PartFields
    /\ (gen.around_term1 = <<>> \/ gen.around_term2 = <<>>) => "around" \notin PartFields
    /\ gen.cache_url = <<>> => "cache" \notin PartFields
    /\ Filled(gen) = 0 => (generated_query_parts = <<>> /\ general_query = <<>>)

\* the open button has been pressed while every field is empty
C3_Witness == Filled(gen) = 0 /\ W_BuildFirst \in gen_warnings

\* C4: the final query never contains two consecutive spaces, also when a free-text
\* field such as keywords, exact-match or exclude begins, ends or contains runs of spaces.
C4_NoConsecutiveSpaces ==
    \A i \in 1..(Len(general_query) - 1) : ~(general_query[i] = " " /\ general_query[i + 1] = " ")

\* the flows whose query is " ".join(query_parts).strip(), and numeric_range, whose
\* f-string is stripped the same way
JoinedFlows ==
    {"analyze_competitors", "specific_file_types", "competitor_content_speed",
     "prolific_guest_bloggers", "numeric_range", "outdated_content"}

NoOuterWhitespace(s) == s = <<>> \/ (s[1] \notin Whitespace /\ s[Len(s)] \notin Whitespace)

\* C5: the final query of the General Query Builder, and of every use-case flow that
\* joins query_parts, has no leading and no trailing whitespace character.
C5_NoOuterWhitespace ==
    /\ NoOuterWhitespace(general_query)
    /\ uc.id \in JoinedFlows => \A i \in 1..Len(uc_code) : NoOuterWhitespace(uc_code[i])

\* a flow has shown a query built from keywords typed with spaces around them
C5_Witness ==
    /\ uc.id = "analyze_competitors"
    /\ uc.comp_keywords = <<" ","a"," ","B"," ">>
    /\ uc_code = << <<"a"," ","B">> >>

\* the cut points of s: before its first character, every bar, after its last character
Cuts(s) == {0, Len(s) + 1} \cup {i \in 1..Len(s) : s[i] = "|"}

NextCut(s, a) == CHOOSE b \in Cuts(s) : b > a /\ \A c \in Cuts(s) : c > a => b <= c

\* the trimmed, non-empty pieces of s that lie after cut point a, in input order
RECURSIVE TermsAfter(_, _)
TermsAfter(s, a) ==
    IF a > Len(s) THEN <<>>
    ELSE (IF Strip(SubSeq(s, a + 1, NextCut(s, a) - 1)) = <<>> THEN <<>>
          ELSE << Strip(SubSeq(s, a + 1, NextCut(s, a) - 1)) >>)
         \o TermsAfter(s, NextCut(s, a))

OrTermsExpected(terms) ==
    /\ Len(terms) > 1 => HasToken("or_terms", <<"(">> \o Join(terms, <<" ","|"," ">>) \o <<")">>)
    /\ Len(terms) = 1 => HasToken("or_terms", terms[1])
    /\ Len(terms) = 0 => "or_terms" \notin PartFields

\* C6: the or-terms input is split on `|`, each piece trimmed, empty pieces discarded;
\* more than one term gives `(t1 | t2 | ...)` in input order, exactly one gives the term
\* alone, none (input `|` or only spaces) gives no token.
C6_OrTerms ==
    /\ OrTermsExpected(TermsAfter(gen.or_terms, 0))
    /\ gen.or_terms = <<"a","|","|","b","|">> => HasToken("or_terms", <<"(","a"," ","|"," ","b",")">>)
    /\ gen.or_terms = <<"a">> => HasToken("or_terms", <<"a">>)
    /\ gen.or_terms \in {<<"|">>, <<" ">>} => "or_terms" \notin PartFields

\* pieces typed with spaces around them have been grouped
C6_Witness ==
    /\ gen.or_terms = <<" ","a"," ","|"," ","b"," ","c"," ">>
    /\ HasToken("or_terms", <<"(","a"," ","|"," ","b"," ","c",")">>)

ExactlyOneAroundTerm == (gen.around_term1 = <<>>) # (gen.around_term2 = <<>>)

\* C7: the token "term1" AROUND(x) "term2" is emitted iff both terms are non-empty; with
\* exactly one term a warning is shown, no AROUND token is emitted and the query is the
\* one obtained with both terms empty; with both or neither there is no AROUND warning.
C7_AroundPair ==
    /\ ("around" \in PartFields) <=> (gen.around_term1 # <<>> /\ gen.around_term2 # <<>>)
    /\ (gen.around_term1 # <<>> /\ gen.around_term2 # <<>>)
          => HasToken("around", <<"\"">> \o gen.around_term1
                                \o <<"\""," ","A","R","O","U","N","D","(">> \o IntToStr(gen.around_x)
                                \o <<")"," ","\"">> \o gen.around_term2 \o <<"\"">>)
    /\ (gen.around_term1 = <<"a">> /\ gen.around_term2 = <<"a">> /\ gen.around_x = 12)
          => HasToken("around", <<"\"","a","\""," ","A","R","O","U","N","D","(","1","2",")"," ","\"","a","\"">>)
    /\ ExactlyOneAroundTerm
          => /\ W_Around \in gen_warnings
             /\ general_query = QueryOf([gen EXCEPT !.around_term1 = <<>>, !.around_term2 = <<>>])
    /\ ~ExactlyOneAroundTerm => W_Around \notin gen_warnings

\* one term alone has been entered next to another field
C7_Witness ==
    /\ gen.around_term1 # <<>>
    /\ gen.around_term2 = <<>>
    /\ W_Around \in gen_warnings
    /\ general_query = <<"a">>

\* C8: a non-empty site or related value that fails is_valid_domain gives a warning and
\* no token, and the query equals the one the same input gives with that field empty;
\* with only an invalid site set the query is the empty string.
C8_InvalidDomainDropped ==
    /\ (gen.site_domain # <<>> /\ ~is_valid_domain(gen.site_domain))
          => /\ W_TargetSite \in gen_warnings
             /\ "site" \notin PartFields
             /\ general_query = QueryOf([gen EXCEPT !.site_domain = <<>>])
    /\ (gen.related_site # <<>> /\ ~is_valid_domain(gen.related_site))
          => /\ W_RelatedSite \in gen_warnings
             /\ "related" \notin PartFields
             /\ general_query = QueryOf([gen EXCEPT !.related_site = <<>>])
    /\ (gen.site_domain # <<>> /\ ~is_valid_domain(gen.site_domain) /\ Filled(gen) = 1)
          => general_query = <<>>

\* an invalid site has been entered next to keywords
C8_Witness ==
    /\ gen.site_domain = <<"x","!">>
    /\ gen.keywords = <<"a">>
    /\ W_TargetSite \in gen_warnings
    /\ general_query = <<"a">>

CacheAccepted(v) ==
    \/ StartsWith(v, <<"h","t","t","p",":","/","/">>)
    \/ StartsWith(v, <<"h","t","t","p","s",":","/","/">>)
    \/ is_valid_domain(v)

-----------------------------------------------------------------------------
(* Claims about is_valid_domain *)

LabelChars == Letters \cup Digits \cup {"-"}

\* 1 to 63 letters, digits and hyphens, neither starting nor ending with a hyphen
StatedLabel(l) ==
    /\ Len(l) >= 1
    /\ Len(l) <= 63
    /\ \A i \in 1..Len(l) : l[i] \in LabelChars
    /\ l[1] # "-"
    /\ l[Len(l)] # "-"

\* 2 to 6 letters
StatedFinalLabel(l) ==
    /\ Len(l) >= 2
    /\ Len(l) <= 6
    /\ \A i \in 1..Len(l) : l[i] \in Letters

StatedLabels(ls) ==
    /\ Len(ls) >= 2
    /\ \A i \in 1..(Len(ls) - 1) : StatedLabel(ls[i])
    /\ StatedFinalLabel(ls[Len(ls)])

\* the stated characterisation: empty, or labels each followed by a dot and a final label
StatedDomain(d) == d = <<>> \/ StatedLabels(Split(d, "."))

\* C10: is_valid_domain(d) is true for the empty string and otherwise exactly when d is,
\* from first to last character, one or more labels each followed by a dot and then a
\* final label of 2 to 6 letters; a d holding any other character (space, slash, colon,
\* newline, ...) anywhere is rejected.
C10_ExactCharacterisation == domain_ok = StatedDomain(domain)

-----------------------------------------------------------------------------
(* Claims about the use-case flows and the link *)

\* the range token as stated: the currency symbol before both bounds
StatedRangeToken(u) ==
    u.currency_symbol \o IntToStr(u.min_value) \o <<".",".">> \o u.currency_symbol \o IntToStr(u.max_value)

\* the keywords and one space when keywords are non-empty, less the leading whitespace
\* that the trim of the whole query removes
StatedRangeLead(u) ==
    IF u.numeric_keywords = <<>> THEN <<>> ELSE LStrip(u.numeric_keywords \o <<" ">>)

NumericRangeOutcome ==
    IF uc.min_value >= uc.max_value
    THEN uc_warnings # {} /\ uc_code = <<>> /\ uc_opened = <<>>
    ELSE uc_code = << StatedRangeLead(uc) \o StatedRangeToken(uc) >>

\* C11: in the numeric range flow a press with min >= max shows a warning and emits no
\* query; with min < max the query ends with {currency}{min}..{currency}{max}, the same
\* currency symbol before both bounds, preceded by the keywords and one space when
\* keywords are non-empty.
C11_NumericRange == [][PressNumericRange => NumericRangeOutcome']_vars

\* the links rendered in the current run, each with the query it was built from
OpenedLinks ==
    {[url |-> gen_opened[i], query |-> general_query] : i \in 1..Len(gen_opened)}
    \cup {[url |-> uc_opened[i], query |-> uc_code[i]] : i \in 1..Len(uc_opened)}

StatedPrefix ==
    <<"h","t","t","p","s",":","/","/","w","w","w",".","g","o","o","g","l","e",
      ".","c","o","m","/","s","e","a","r","c","h","?","q","=">>

\* the part of a link after the stated prefix
EncodedPart(url) == SubSeq(url, Len(StatedPrefix) + 1, Len(url))

Unreserved == Letters \cup Digits \cup {"_", ".", "-", "~"}

Count(s, set) == Cardinality({i \in 1..Len(s) : s[i] \in set})

\* e can be the form-encoding of q: only unreserved characters, `+` and `%` escapes, one
\* `+` per space of q, one `%XX` per other character outside the unreserved ones
StatedEncoding(q, e) ==
    /\ \A i \in 1..Len(e) : e[i] \in Unreserved \cup {"+", "%"}
    /\ Count(e, {"+"}) = Count(q, {" "})
    /\ Count(e, {"%"}) = Len(q) - Count(q, Unreserved \cup {" "})
    /\ Len(e) = Count(q, Unreserved \cup {" "}) + 3 * Count(e, {"%"})
    /\ \A i \in 1..Len(e) : e[i] \notin {" ", "\"", "<", ">", "&", "#"}

\* C12: open_google_search(q) builds https://www.google.com/search?q= followed by the
\* form-encoding of q: every space becomes `+`, every character other than letters,
\* digits and _ . - ~ becomes a %XX escape, so the encoded part holds no space, double
\* quote, <, >, &, # and no `+` that stood for a `+` of q.
C12_FormEncodedLink ==
    \A l \in OpenedLinks :
        /\ StartsWith(l.url, StatedPrefix)
        /\ StatedEncoding(l.query, EncodedPart(l.url))

\* a query holding + % & # < > has been opened
C12_Witness ==
    /\ gen.keywords = <<"+","%","&","#","<",">">>
    /\ gen_opened # <<>>
    /\ general_query # gen.keywords

HexValue(c) == CHOOSE n \in 0..15 : HexDigit(n) = c

EscapedChars ==
    {"\t", "\n", "\f", "\r", " ", "!", "\"", "#", "$", "%", "&", "'", "(", ")", "+", ",",
     "/", ":", "<", "=", ">", "?", "|"}

CharOfCode(n) == CHOOSE c \in EscapedChars : CharCode(c) = n

\* a place near the middle m of e that is not inside a %XX escape
CutPoint(e, m) == IF e[m] = "%" THEN m - 1 ELSE IF e[m - 1] = "%" THEN m - 2 ELSE m

\* standard decoding of a query parameter: `+` to space, then %XX to its character; a
\* long parameter is decoded in two pieces cut between two encoded characters
RECURSIVE unquote_plus(_)
unquote_plus(e) ==
    IF Len(e) > 6
    THEN unquote_plus(SubSeq(e, 1, CutPoint(e, Len(e) \div 2)))
         \o unquote_plus(SubSeq(e, CutPoint(e, Len(e) \div 2) + 1, Len(e)))
    ELSE IF e = <<>> THEN <<>>
    ELSE IF Head(e) = "+" THEN <<" ">> \o unquote_plus(Tail(e))
    ELSE IF Head(e) = "%" /\ Len(e) >= 3
         THEN <<CharOfCode(16 * HexValue(e[2]) + HexValue(e[3]))>> \o unquote_plus(SubSeq(e, 4, Len(e)))
    ELSE <<Head(e)>> \o unquote_plus(Tail(e))

\* C13: decoding the encoded query parameter of a link (`+` to space, then
\* percent-decoding) gives back exactly the query it was built from, also when the query
\* holds + % & " | : or parentheses.
C13_RoundTrip ==
    \A l \in OpenedLinks : unquote_plus(EncodedPart(l.url)) = l.query

\* a grouped or-terms query, with bars and parentheses, has been opened
C13_Witness ==
    /\ gen.or_terms = <<"a","|","b","|","c">>
    /\ gen.intitle_phrase # <<>>
    /\ gen_opened # <<>>

\* C14: the generated query and the warnings of a run depend only on the field values
\* of that run: whatever runs came before, they are the ones a first run on the same
\* field values gives (the warning of the open button apart, which depends on the press).
C14_Stateless ==
    /\ generated_query_parts = PartsOf(gen)
    /\ general_query = QueryOf(gen)
    /\ gen_warnings \ {W_BuildFirst} = GenInputWarnings(gen, Rejected(gen))

\* the same field values have been run twice, the second time by the open button
C14_Witness ==
    /\ gen.exclude_term # <<>>
    /\ W_TargetSite \in gen_warnings
    /\ gen_opened # <<>>

\* the stated outcome of a press with an invalid domain next to valid fields: a warning,
\* and the query the remaining fields give
RecoveredOutcome ==
    /\ uc_warnings # {}
    /\ uc.id = "analyze_competitors"
          => uc_code = analyze_competitors([uc EXCEPT !.comp_domain = <<>>]).code
    /\ uc.id = "social_conversations"
          => uc_code = forum_query(uc.conversation_topic, uc.forum_sites).code
    /\ uc.id = "platform_mentions"
          => uc_code = platform_query(uc.mention_keywords, uc.platform_sites).code

InvalidDomainNextToValidFields ==
    \/ uc.id = "analyze_competitors" /\ DomainRejected(uc.comp_domain)
          /\ Strip(uc.comp_keywords) # <<>>
    \/ uc.id = "social_conversations" /\ DomainRejected(uc.custom_forum_site)
          /\ uc.conversation_topic # <<>> /\ uc.forum_sites # <<>>
    \/ uc.id = "platform_mentions" /\ DomainRejected(uc.custom_platform_site)
          /\ uc.mention_keywords # <<>> /\ uc.platform_sites # <<>>

\* C15: in the flows that take a domain next to other fields (analyze competitors,
\* social conversations, platform mentions) an invalid domain is reported as a warning
\* and the query is still composed from the remaining valid fields: the selected sites,
\* or the keywords.
C15_InvalidDomainRecovered ==
    [][((PressCompetitors \/ PressSocialConversations \/ PressPlatformMentions)
        /\ InvalidDomainNextToValidFields) => (RecoveredOutcome /\ uc_code # <<>>)']_vars

DigitValue(c) == CHOOSE n \in 0..9 : DigitChar(n) = c

\* YYYY-MM-DD: four digits, a month 01..12 and a day 01..31, each of two digits
IsIsoDate(d) ==
    /\ Len(d) = 10
    /\ d[5] = "-" /\ d[8] = "-"
    /\ \A i \in {1, 2, 3, 4, 6, 7, 9, 10} : d[i] \in Digits
    /\ 10 * DigitValue(d[6]) + DigitValue(d[7]) \in 1..12
    /\ 10 * DigitValue(d[9]) + DigitValue(d[10]) \in 1..31

\* every space-separated piece of query that starts with before: or after: is that
\* operator followed by a date
DateTokensWellFormed(query) ==
    \A i \in 1..Len(Split(query, " ")) :
        /\ StartsWith(Split(query, " ")[i], <<"b","e","f","o","r","e",":">>)
              => IsIsoDate(SubSeq(Split(query, " ")[i], 8, Len(Split(query, " ")[i])))
        /\ StartsWith(Split(query, " ")[i], <<"a","f","t","e","r",":">>)
              => IsIsoDate(SubSeq(Split(query, " ")[i], 7, Len(Split(query, " ")[i])))

HasPiece(query, piece) == \E i \in 1..Len(Split(query, " ")) : Split(query, " ")[i] = piece

\* C16: every before: and after: token of an emitted query is operator:YYYY-MM-DD, zero
\* padded, in the general builder, the competitor-content-speed flow and the
\* outdated-content flow, whose token is before:<year>-01-01.
C16_DateTokens ==
    /\ \A i \in 1..Len(generated_query_parts) :
          generated_query_parts[i].field \in {"before", "after"}
             => DateTokensWellFormed(generated_query_parts[i].tok)
    /\ (gen.before_date # NoDate /\ gen.keywords = <<>> /\ gen.exact_match_phrase = <<>>
        /\ gen.exclude_term = <<>>)
          => (DateTokensWellFormed(general_query)
              /\ \E i \in 1..Len(Split(general_query, " ")) :
                    StartsWith(Split(general_query, " ")[i], <<"b","e","f","o","r","e",":">>))
    /\ (uc.id \in {"competitor_content_speed", "outdated_content"} /\ uc_code # <<>>)
          => DateTokensWellFormed(uc_code[1])
    /\ (uc.id = "competitor_content_speed" /\ uc_code # <<>>
        /\ uc.content_after_date = [y |-> 2010, m |-> 5, d |-> 8])
          => HasPiece(uc_code[1], <<"a","f","t","e","r",":","2","0","1","0","-","0","5","-","0","8">>)
    /\ (uc.id = "outdated_content" /\ uc_code # <<>>)
          => HasPiece(uc_code[1], <<"b","e","f","o","r","e",":">>
                                   \o IntToStr(uc.outdated_year_before) \o <<"-","0","1","-","0","1">>)

\* the speed flow has emitted a date whose month and day need padding
C16_Witness ==
    /\ uc.id = "competitor_content_speed"
    /\ uc.content_after_date = [y |-> 2010, m |-> 5, d |-> 8]
    /\ uc.comp_content_domain # <<>>
    /\ uc_code # <<>>

PiecesInOrder(query, first, second) ==
    \A i, j \in 1..Len(Split(query, " ")) :
        (StartsWith(Split(query, " ")[i], first) /\ StartsWith(Split(query, " ")[j], second))
           => i < j

\* C17: in every flow that can emit both a before: and an after: token, the general
\* builder and the competitor-content-speed flow, the before: token precedes the after:
\* token whenever both are present.
C17_BeforePrecedesAfter ==
    /\ \A i, j \in 1..Len(generated_query_parts) :
          (generated_query_parts[i].field = "before" /\ generated_query_parts[j].field = "after")
             => i < j
    /\ (uc.id = "competitor_content_speed" /\ uc_code # <<>>)
          => PiecesInOrder(uc_code[1], <<"b","e","f","o","r","e",":">>, <<"a","f","t","e","r",":">>)

NoEmptyQueryOpened == \A l \in OpenedLinks : l.query # <<>> /\ l.url # StatedPrefix

EmptyQueryBlocked == general_query = <<>> => (W_BuildFirst \in gen_warnings /\ gen_opened = <<>>)

\* C18: open_google_search is never invoked with the empty string, in any flow and for
\* any input; pressing the open button of the general builder while the generated query
\* is empty shows a warning and renders no link.
C18_NeverOpenEmpty ==
    [][NoEmptyQueryOpened' /\ (PressOpenGeneral => EmptyQueryBlocked')]_vars

\* the open button has been pressed on keywords that are only a space
C18_Witness ==
    /\ gen.keywords = <<" ">>
    /\ general_query = <<>>
    /\ W_BuildFirst \in gen_warnings
    /\ gen_opened = <<>>

\* the domain typed into the field from which the flow builds its site: token
TypedSiteDomain(u) ==
    CASE u.id = "indexing_issues" -> u.indexing_domain
      [] u.id = "specific_file_types" -> u.file_site_optional
      [] u.id = "internal_linking" -> u.internal_link_site
      [] u.id = "competitor_content_speed" -> u.comp_content_domain
      [] u.id = "non_secure_pages" -> u.non_secure_domain
      [] u.id = "competitor_top_pages" -> u.comp_top_pages_domain
      [] u.id = "outdated_content" -> u.outdated_domain
      [] u.id = "competitor_content_by_topic" -> u.comp_content_topic_domain
      [] u.id = "social_conversations" -> u.custom_forum_site
      [] u.id = "platform_mentions" -> u.custom_platform_site

SiteFlows ==
    {"indexing_issues", "specific_file_types", "internal_linking", "competitor_content_speed",
     "non_secure_pages", "competitor_top_pages", "outdated_content",
     "competitor_content_by_topic", "social_conversations", "platform_mentions"}

\* the flows in which the typed domain may be left empty, the query then having no
\* site: token from it
OptionalSiteFlows == {"specific_file_types", "social_conversations", "platform_mentions"}

\* C19: each site: token built from a user-typed domain field and present in an emitted
\* query carries a non-empty value that is_valid_domain accepts; no emitted query holds
\* a bare site: with an empty value, the competitor-content-speed flow with its domain
\* left empty included.
C19_SiteTokensValid ==
    /\ "site" \in PartFields => (gen.site_domain # <<>> /\ is_valid_domain(gen.site_domain))
    /\ ~HasPiece(general_query, <<"s","i","t","e",":">>)
    /\ (uc.id \in SiteFlows /\ uc_code # <<>>)
          => /\ ~HasPiece(uc_code[1], <<"s","i","t","e",":">>)
             /\ is_valid_domain(TypedSiteDomain(uc))
             /\ uc.id \notin OptionalSiteFlows => TypedSiteDomain(uc) # <<>>

\* one press of the Generate button of the selected use case
PressGenerate ==
    \/ PressIndexing \/ PressCompetitors \/ PressGuestPost \/ PressResourcePage
    \/ PressFileTypes \/ PressInternalLinks \/ PressListicles \/ PressCompetitorReviews
    \/ PressQaSites \/ PressContentSpeed \/ PressNonSecure \/ PressPlagiarism
    \/ PressGuestBloggers \/ PressCompTopPages \/ PressNumericRange \/ PressCredibleSources
    \/ PressInfographic \/ PressSocialProfiles \/ PressSocialConversations
    \/ PressPlatformMentions \/ PressOutdated \/ PressSponsoredPost \/ PressCompContentTopic

QueryOutcome == Len(uc_code) = 1 /\ Len(uc_opened) = 1 /\ uc_warnings = {}

WarningOutcome == uc_warnings # {} /\ uc_code = <<>> /\ uc_opened = <<>>

\* the 23 use cases of the selectbox
StatedUseCases == UseCaseIds \ {"none"}

BloggerFieldsEmpty ==
    /\ uc.id = "prolific_guest_bloggers"
    /\ uc.blogger_niche = <<>>
    /\ uc.specific_author = <<>>

\* the competitor-content-speed form with the domain left empty and neither date chosen
SpeedFieldsEmpty ==
    /\ uc.id = "competitor_content_speed"
    /\ uc.comp_content_domain = <<>>
    /\ uc.content_after_date = NoDate
    /\ uc.content_before_date = NoDate

\* the run has shown exactly the warning w and has rendered no query and no link
OnlyWarningShown(w) == uc_warnings = {w} /\ uc_code = <<>> /\ uc_opened = <<>>

\* C21: a press of Generate in the prolific-guest-bloggers flow with niche and author
\* both empty shows 'Please enter a niche/keywords.' and emits no query; a press of
\* Generate in the competitor-content-speed flow with an empty domain and no dates shows
\* 'Please enter a competitor domain and at least one date.' and emits no query.
C21_RequiredInputWarnings ==
    [][/\ (PressGuestBloggers /\ BloggerFieldsEmpty) => OnlyWarningShown(W_BloggerEmpty)'
       /\ (PressContentSpeed /\ SpeedFieldsEmpty) => OnlyWarningShown(W_SpeedEmpty)']_vars

\* v is a domain that is_valid_domain accepts, then a slash, then a non-empty path, as
\* in example.com/page and yoursite.com/blog; such a value has no http(s):// prefix
HostPlusPath(v) ==
    \E i \in 2..(Len(v) - 1) :
        /\ v[i] = "/"
        /\ is_valid_domain(SubSeq(v, 1, i - 1))
        /\ ~StartsWith(v, <<"h","t","t","p",":","/","/">>)
        /\ ~StartsWith(v, <<"h","t","t","p","s",":","/","/">>)

\* the builder has given a host-plus-path Cache URL its token, unchanged, and no warning
CachePathAccepted ==
    HostPlusPath(gen.cache_url)
        => /\ HasToken("cache", <<"c","a","c","h","e",":">> \o gen.cache_url)
           /\ W_CacheUrl \notin gen_warnings

\* the internal-links form holds a host-plus-path site and a keyword
InternalLinkPathTyped ==
    /\ uc.id = "internal_linking"
    /\ HostPlusPath(uc.internal_link_site)
    /\ uc.internal_link_keyword # <<>>

\* the flow has rendered and opened site:<value> "<keyword>" and has shown no warning
InternalLinkQueryShown ==
    /\ uc_code = << <<"s","i","t","e",":">> \o uc.internal_link_site \o <<" ", "\"">>
                    \o uc.internal_link_keyword \o <<"\"">> >>
    /\ Len(uc_opened) = 1
    /\ uc_warnings = {}

\* C22: a value <valid domain>/<path> without an http:// or https:// prefix is accepted
\* by the fields whose labels advertise it: the builder's Cache URL field gives the
\* token cache:<value> with no warning, and a press of Generate in the internal-links
\* flow with a non-empty keyword emits site:<value> "<keyword>" with no warning.
C22_HostPlusPathAccepted ==
    [][/\ CachePathAccepted'
       /\ (PressInternalLinks /\ InternalLinkPathTyped) => InternalLinkQueryShown']_vars

====
